---- MODULE Spec2Model ----
(***************************************************************************)
(* Model of cloud_browser/templatetags/cloud_browser_extras.py:            *)
(*   - the truncatechars filter,                                           *)
(*   - the cloud_browser_media_url tag and MediaUrlNode,                   *)
(*   - the cloud_browser_messages tag and CloudBrowserMessagesNode.        *)
(* Python strings are sequences of one-character strings; message tags are *)
(* sequences of byte values, so that Python's string ordering is modelled. *)
(***************************************************************************)
EXTENDS Integers, Sequences, FiniteSets, TLC

VARIABLES
    value, num, end_text,      \* truncatechars: the three arguments
    tc_pc, tc_result,          \* truncatechars: position and outcome of the call
    bits, static_media_url,    \* media url: tag token contents, class attribute
    rel_path, url, mu_pc,      \* media url: MediaUrlNode.rel_path, render() result
    messages,                  \* messages: context[self.messages]
    classified_messages,       \* messages: the dict built by the first loop
    sorted_keys,               \* messages: sorted(classified_messages.iterkeys())
    messages_template,         \* messages: the markup built by the second loop
    cm_pc                      \* messages: position inside render()

tc_vars == <<value, num, end_text, tc_pc, tc_result>>
mu_vars == <<bits, static_media_url, rel_path, url, mu_pc>>
cm_vars == <<messages, classified_messages, sorted_keys, messages_template, cm_pc>>
vars == <<tc_vars, mu_vars, cm_vars>>

-----------------------------------------------------------------------------
(* Bounds of the model.                                                    *)

MaxValueLen == 4
MaxEndLen == 3
MaxNum == 5
MaxNumStrLen == 2
MaxPathLen == 4
MaxBaseLen == 2
MaxMsgs == 3

-----------------------------------------------------------------------------
(* Python primitives used by the module.                                   *)

Min(a, b) == IF a < b THEN a ELSE b
Max(a, b) == IF a > b THEN a ELSE b

SeqsUpTo(S, n) == UNION {[1..k -> S] : k \in 0..n}

\* s[:k] : a negative k counts from the end of s.
PySliceTo(s, k) ==
    IF k >= 0 THEN SubSeq(s, 1, Min(k, Len(s)))
              ELSE SubSeq(s, 1, Max(Len(s) + k, 0))

\* s.lstrip(c) for a one-character c: drops EVERY leading c.
RECURSIVE PyLStrip(_, _)
PyLStrip(s, c) ==
    IF Len(s) > 0 /\ s[1] = c THEN PyLStrip(Tail(s), c) ELSE s

\* s.rstrip(c)
RECURSIVE PyRStrip(_, _)
PyRStrip(s, c) ==
    IF Len(s) > 0 /\ s[Len(s)] = c THEN PyRStrip(SubSeq(s, 1, Len(s) - 1), c) ELSE s

\* s.strip(c)
PyStrip(s, c) == PyRStrip(PyLStrip(s, c), c)

Digits == {"0", "1", "2", "3", "4", "5", "6", "7", "8", "9"}

DigitVal(c) ==
    CASE c = "0" -> 0 [] c = "1" -> 1 [] c = "2" -> 2 [] c = "3" -> 3
      [] c = "4" -> 4 [] c = "5" -> 5 [] c = "6" -> 6 [] c = "7" -> 7
      [] c = "8" -> 8 [] c = "9" -> 9

RECURSIVE DigitsVal(_)
DigitsVal(s) ==
    IF Len(s) = 0 THEN 0
    ELSE 10 * DigitsVal(SubSeq(s, 1, Len(s) - 1)) + DigitVal(s[Len(s)])

AllDigits(s) == Len(s) > 0 /\ \A i \in 1..Len(s) : s[i] \in Digits

\* Arguments the filter can receive as num.
NoneArg == [type |-> "NoneType", int |-> 0, str |-> <<>>]
IntArg(n) == [type |-> "int", int |-> n, str |-> <<>>]
StrArg(s) == [type |-> "str", int |-> 0, str |-> s]

\* int(x): the integer, or the exception Python raises.
\* int(None) raises TypeError; int of a string that is not an optionally
\* signed run of digits (surrounding blanks allowed) raises ValueError.
PyInt(x) ==
    CASE x.type = "NoneType" -> [exc |-> "TypeError", val |-> 0]
      [] x.type = "int" -> [exc |-> "none", val |-> x.int]
      [] x.type = "str" ->
            LET t == PyStrip(x.str, " ")
                neg == Len(t) > 0 /\ t[1] = "-"
                d == IF Len(t) > 0 /\ t[1] \in {"-", "+"} THEN Tail(t) ELSE t
            IN IF AllDigits(d)
               THEN [exc |-> "none", val |-> IF neg THEN 0 - DigitsVal(d) ELSE DigitsVal(d)]
               ELSE [exc |-> "ValueError", val |-> 0]

-----------------------------------------------------------------------------
(* truncatechars                                                           *)

\* A truncation that forgets to make room for end_text.
TruncatecharsNoRoom(v, n, e) ==
    LET r == PyInt(n)
    IN IF r.exc = "TypeError" THEN [exc |-> "TypeError", ret |-> <<>>]
       ELSE IF r.exc = "none" /\ Len(v) > r.val
            THEN [exc |-> "none", ret |-> PySliceTo(v, r.val) \o e]
            ELSE [exc |-> "none", ret |-> v]

\* A truncation that cuts already when len(value) = num.
TruncatecharsGeq(v, n, e) ==
    LET r == PyInt(n)
    IN IF r.exc = "TypeError" THEN [exc |-> "TypeError", ret |-> <<>>]
       ELSE IF r.exc = "none" /\ Len(v) >= r.val
            THEN [exc |-> "none", ret |-> PySliceTo(v, r.val - Len(e)) \o e]
            ELSE [exc |-> "none", ret |-> v]

\* The filter body: only ValueError is caught around int(num), so any other
\* exception of int() leaves the call.
Truncatechars(v, n, e) ==
    LET r == PyInt(n)
    IN IF r.exc = "TypeError" THEN [exc |-> "TypeError", ret |-> <<>>]
       ELSE IF r.exc = "none" /\ Len(v) > r.val
            THEN [exc |-> "none", ret |-> PySliceTo(v, r.val - Len(e)) \o e]
            ELSE [exc |-> "none", ret |-> v]

ValueChars == {"a", "b"}
Values == SeqsUpTo(ValueChars, MaxValueLen)
EndTexts == {[i \in 1..k |-> "."] : k \in 0..MaxEndLen}
NumChars == {"-", "1", "2", "x", " "}
NumArgs == {NoneArg} \cup {IntArg(n) : n \in (0 - 2)..MaxNum}
              \cup {StrArg(s) : s \in SeqsUpTo(NumChars, MaxNumStrLen)}

NoResult == [exc |-> "pending", ret |-> <<>>]

TcIdle ==
    /\ value = <<>> /\ num = NoneArg /\ end_text = <<>>
    /\ tc_pc = "idle" /\ tc_result = NoResult

MuIdle ==
    /\ bits = <<>> /\ static_media_url = [set |-> FALSE, url |-> <<>>]
    /\ rel_path = <<>> /\ url = [via |-> "none", path |-> <<>>]
    /\ mu_pc = "idle"

EmptyDict == [k \in {} |-> <<>>]

CmIdle ==
    /\ messages = <<>> /\ classified_messages = EmptyDict
    /\ sorted_keys = <<>> /\ messages_template = <<>>
    /\ cm_pc = "idle"

InitTruncate ==
    /\ value \in Values
    /\ num \in NumArgs
    /\ end_text \in EndTexts
    /\ tc_pc = "call"
    /\ tc_result = NoResult
    /\ MuIdle /\ CmIdle

CallTruncatechars ==
    /\ tc_pc = "call"
    /\ tc_result' = Truncatechars(value, num, end_text)
    /\ tc_pc' = "done"
    /\ UNCHANGED <<value, num, end_text, mu_vars, cm_vars>>

NextTruncate == CallTruncatechars

SpecTruncate == InitTruncate /\ [][NextTruncate]_vars

-----------------------------------------------------------------------------
(* Properties of truncatechars.                                            *)

NumIsInt == PyInt(num).exc = "none"
NumVal == PyInt(num).val
FirstChars(s, k) == [i \in 1..Min(k, Len(s)) |-> s[i]]

\* C5: whenever num is None or is not parseable as an integer, the call
\* returns value unchanged and raises no error.
C5_UnparseableNumReturnsValue ==
    (tc_pc = "done" /\ ~NumIsInt)
        => (tc_result.exc = "none" /\ tc_result.ret = value)

\* C6 as stated: for every integer num, len(value) > num gives the first
\* (num - len(end_text)) characters of value followed by end_text, and
\* len(value) <= num gives value unchanged.
C6_TruncatesForEveryInt ==
    (tc_pc = "done" /\ NumIsInt) =>
        /\ tc_result.exc = "none"
        /\ Len(value) > NumVal =>
              tc_result.ret = FirstChars(value, NumVal - Len(end_text)) \o end_text
        /\ Len(value) <= NumVal => tc_result.ret = value

\* C6 amended: for every integer num with len(end_text) <= num < len(value)
\* the result is the first (num - len(end_text)) characters of value followed
\* by end_text; for every integer num with len(value) <= num the result is
\* value unchanged.
C6_TruncatesWhenRoomForEndText ==
    (tc_pc = "done" /\ NumIsInt) =>
        /\ tc_result.exc = "none"
        /\ (Len(value) > NumVal /\ Len(end_text) <= NumVal) =>
              tc_result.ret = FirstChars(value, NumVal - Len(end_text)) \o end_text
        /\ Len(value) <= NumVal => tc_result.ret = value

\* A call that truncated, keeping a non-empty prefix and a non-empty end_text.
C6_Witness ==
    /\ tc_pc = "done" /\ NumIsInt
    /\ Len(value) > NumVal /\ Len(end_text) < NumVal /\ Len(end_text) > 0
    /\ tc_result.ret = FirstChars(value, NumVal - Len(end_text)) \o end_text
    /\ tc_result.ret # value

\* C7: for every string s, non-negative integer n and suffix with
\* len(suffix) <= n, len(truncatechars(s, n, suffix)) <= max(len(s), n).
C7_ResultLengthBounded ==
    (tc_pc = "done" /\ NumIsInt /\ NumVal >= 0 /\ Len(end_text) <= NumVal) =>
        /\ tc_result.exc = "none"
        /\ Len(tc_result.ret) <= Max(Len(value), NumVal)

\* A truncating call within C7's precondition; its result has num characters.
C7_Witness ==
    /\ tc_pc = "done" /\ NumIsInt /\ NumVal >= 0
    /\ Len(end_text) <= NumVal /\ Len(end_text) > 0
    /\ Len(value) > NumVal
    /\ Len(tc_result.ret) = NumVal

-----------------------------------------------------------------------------
(* cloud_browser_media_url and MediaUrlNode                                *)

\* posixpath.join(a, b): an absolute b replaces a; otherwise one "/" is put
\* between them unless a is empty or already ends with one.
OsPathJoin(a, b) ==
    IF Len(b) > 0 /\ b[1] = "/" THEN b
    ELSE IF Len(a) = 0 \/ a[Len(a)] = "/" THEN a \o b
    ELSE a \o <<"/">> \o b

\* MediaUrlNode.__init__: rel_path.lstrip('/').strip("'").strip('"')
MediaUrlNodeInit(p) == PyStrip(PyStrip(PyLStrip(p, "/"), "'"), "\"")

\* MediaUrlNode.render: the joined URL when the static media URL is set, and
\* otherwise the host's reverse("cloud_browser_media", args=[rel_path]).
MediaUrlNodeRender(base, rp) ==
    IF base.set
    THEN [via |-> "static", path |-> OsPathJoin(base.url, rp)]
    ELSE [via |-> "reverse", path |-> rp]

PathChars == {"/", "'", "\"", "c"}
TagArgs == SeqsUpTo(PathChars, MaxPathLen)
BaseChars == {"/", "s"}
BaseUrls == SeqsUpTo(BaseChars, MaxBaseLen) \ {<<>>}
MediaSettings == {[set |-> FALSE, url |-> <<>>]} \cup {[set |-> TRUE, url |-> b] : b \in BaseUrls}

\* The template holds {% cloud_browser_media_url <argument> %}; bits is
\* token.split_contents(), the tag name followed by its arguments.
TagName == <<"c", "b", "m", "u">>
MaxTagArgs == 2

InitMedia ==
    /\ \E a \in TagArgs, n \in 0..MaxTagArgs : bits = <<TagName>> \o [i \in 1..n |-> a]
    /\ static_media_url \in MediaSettings
    /\ rel_path = <<>>
    /\ url = [via |-> "none", path |-> <<>>]
    /\ mu_pc = "compile"
    /\ TcIdle /\ CmIdle

\* The tag function with one argument: builds the node.
CloudBrowserMediaUrl ==
    /\ mu_pc = "compile"
    /\ Len(bits) = 2
    /\ rel_path' = MediaUrlNodeInit(bits[2])
    /\ mu_pc' = "node"
    /\ UNCHANGED <<bits, static_media_url, url, tc_vars, cm_vars>>

\* The tag function with any other number of arguments: TemplateSyntaxError.
CloudBrowserMediaUrlSyntaxError ==
    /\ mu_pc = "compile"
    /\ Len(bits) # 2
    /\ mu_pc' = "TemplateSyntaxError"
    /\ UNCHANGED <<bits, static_media_url, rel_path, url, tc_vars, cm_vars>>

RenderMediaUrl ==
    /\ mu_pc = "node"
    /\ url' = MediaUrlNodeRender(static_media_url, rel_path)
    /\ mu_pc' = "rendered"
    /\ UNCHANGED <<bits, static_media_url, rel_path, tc_vars, cm_vars>>

NextMedia ==
    \/ CloudBrowserMediaUrl
    \/ CloudBrowserMediaUrlSyntaxError
    \/ RenderMediaUrl

SpecMedia == InitMedia /\ [][NextMedia]_vars

-----------------------------------------------------------------------------
(* Properties of the media URL tag.                                        *)

EndsWithSlash(s) == Len(s) > 0 /\ s[Len(s)] = "/"

\* C8: when the static media base URL is set, for every tag argument render
\* returns the base URL followed by the sanitized relative path with exactly
\* one path separator between the two; the base URL is never dropped.
C8_BaseUrlJoinedWithRelPath ==
    (mu_pc = "rendered" /\ static_media_url.set) =>
        /\ url.via = "static"
        /\ url.path = IF EndsWithSlash(static_media_url.url)
                      THEN static_media_url.url \o rel_path
                      ELSE static_media_url.url \o <<"/">> \o rel_path

IsQuote(c) == c = "'" \/ c = "\""
IsQuoted(s) == Len(s) >= 2 /\ IsQuote(s[1]) /\ s[Len(s)] = s[1]
Unquoted(s) == SubSeq(s, 2, Len(s) - 1)

\* C9: for every relative path p, resolving p wrapped in a pair of quote
\* characters yields the identical result as resolving p unquoted.
C9_QuotedResolvesLikeUnquoted ==
    (mu_pc = "rendered" /\ IsQuoted(bits[2])) =>
        /\ rel_path = MediaUrlNodeInit(Unquoted(bits[2]))
        /\ url = MediaUrlNodeRender(static_media_url, MediaUrlNodeInit(Unquoted(bits[2])))

-----------------------------------------------------------------------------
(* cloud_browser_messages and CloudBrowserMessagesNode                     *)

\* msg.level values of the host framework's message levels.
WARNING == 30
ERROR == 40

Levels == {WARNING, ERROR}
\* msg.tags values: "", "a", "ab", "b" as byte strings.
Tags == {<<>>, <<97>>, <<97, 98>>, <<98>>}
Texts == {"m1", "m2"}
Messages == [level : Levels, tags : Tags, message : Texts]

\* Python's < on byte strings: the first differing byte decides, and a
\* proper prefix is smaller.
RECURSIVE StrLess(_, _)
StrLess(a, b) ==
    IF Len(b) = 0 THEN FALSE
    ELSE IF Len(a) = 0 THEN TRUE
    ELSE IF a[1] # b[1] THEN a[1] < b[1]
    ELSE StrLess(Tail(a), Tail(b))

\* A comparison with the larger key first.
TupleLessDescending(a, b) ==
    \/ b[1] < a[1]
    \/ (a[1] = b[1] /\ StrLess(b[2], a[2]))

\* A comparison that lets the tag decide before the level.
TupleLessTagFirst(a, b) ==
    \/ StrLess(a[2], b[2])
    \/ (a[2] = b[2] /\ a[1] < b[1])

\* Python's < on the (level, tags) tuples that sorted() compares.
TupleLess(a, b) ==
    \/ a[1] < b[1]
    \/ (a[1] = b[1] /\ StrLess(a[2], b[2]))

\* sorted(keys) for a set of distinct keys.
RECURSIVE Sorted(_)
Sorted(S) ==
    IF S = {} THEN <<>>
    ELSE LET m == CHOOSE x \in S : \A y \in S \ {x} : TupleLess(x, y)
         IN <<m>> \o Sorted(S \ {m})

\* A key that ignores the level.
KeyTagsOnly(msg) == <<WARNING, msg.tags>>

\* The dict key of a message: (msg.level, msg.tags)
Key(msg) == <<msg.level, msg.tags>>

\* A loop body that overwrites the list of an existing key.
ClassifyStepOverwrite(cm, msg) ==
    [x \in DOMAIN cm \cup {Key(msg)} |-> IF x = Key(msg) THEN <<msg.message>> ELSE cm[x]]

\* A loop body that puts the newest message first.
ClassifyStepPrepend(cm, msg) ==
    IF Key(msg) \in DOMAIN cm
    THEN [cm EXCEPT ![Key(msg)] = <<msg.message>> \o @]
    ELSE [x \in DOMAIN cm \cup {Key(msg)} |-> IF x = Key(msg) THEN <<msg.message>> ELSE cm[x]]

\* The body of the classification loop.
ClassifyStep(cm, msg) ==
    IF Key(msg) \in DOMAIN cm
    THEN [cm EXCEPT ![Key(msg)] = Append(@, msg.message)]
    ELSE [x \in DOMAIN cm \cup {Key(msg)} |-> IF x = Key(msg) THEN <<msg.message>> ELSE cm[x]]

\* The classification loop over the messages, in order.
RECURSIVE Classify(_, _)
Classify(cm, msgs) ==
    IF Len(msgs) = 0 THEN cm
    ELSE Classify(ClassifyStep(cm, Head(msgs)), Tail(msgs))

\* The pieces of markup that render() appends to messages_template.
OpenBlock(tag) == [kind |-> "<div><ul>", tag |-> tag, text |-> ""]
ListItem(m) == [kind |-> "<li>", tag |-> <<>>, text |-> m]
CloseBlock == [kind |-> "</ul></div>", tag |-> <<>>, text |-> ""]

\* One block: the opening markup with the tag, an item per text, the closing.
RenderBlock(cm, key) ==
    <<OpenBlock(key[2])>> \o [i \in 1..Len(cm[key]) |-> ListItem(cm[key][i])]
                         \o <<CloseBlock>>

\* The rendering loop over the sorted keys.
RECURSIVE RenderBlocks(_, _)
RenderBlocks(cm, keys) ==
    IF Len(keys) = 0 THEN <<>>
    ELSE RenderBlock(cm, Head(keys)) \o RenderBlocks(cm, Tail(keys))

InitMessages ==
    /\ messages \in SeqsUpTo(Messages, MaxMsgs)
    /\ classified_messages = EmptyDict
    /\ sorted_keys = <<>>
    /\ messages_template = <<>>
    /\ cm_pc = "render"
    /\ TcIdle /\ MuIdle

\* render(), first loop.
RenderClassify ==
    /\ cm_pc = "render"
    /\ classified_messages' = Classify(EmptyDict, messages)
    /\ cm_pc' = "classified"
    /\ UNCHANGED <<messages, sorted_keys, messages_template, tc_vars, mu_vars>>

\* render(), second loop and return.
RenderTemplate ==
    /\ cm_pc = "classified"
    /\ sorted_keys' = Sorted(DOMAIN classified_messages)
    /\ messages_template' = RenderBlocks(classified_messages, sorted_keys')
    /\ cm_pc' = "rendered"
    /\ UNCHANGED <<messages, classified_messages, tc_vars, mu_vars>>

NextMessages == RenderClassify \/ RenderTemplate

SpecMessages == InitMessages /\ [][NextMessages]_vars

-----------------------------------------------------------------------------
(* Properties of the messages tag.                                         *)

MsgIdx == 1..Len(messages)
\* The (severity, category-string) pair of the i-th input message.
InputKey(i) == <<messages[i].level, messages[i].tags>>
InputKeys == {InputKey(i) : i \in MsgIdx}
Classified == cm_pc \in {"classified", "rendered"}
Rendered == cm_pc = "rendered"

RECURSIVE SumOfLengths(_, _)
SumOfLengths(f, S) ==
    IF S = {} THEN 0
    ELSE LET k == CHOOSE x \in S : TRUE
         IN Len(f[k]) + SumOfLengths(f, S \ {k})

\* The texts of the input messages with key k, in input order.
RECURSIVE TextsWithKey(_, _)
TextsWithKey(msgs, k) ==
    IF Len(msgs) = 0 THEN <<>>
    ELSE IF <<Head(msgs).level, Head(msgs).tags>> = k
         THEN <<Head(msgs).message>> \o TextsWithKey(Tail(msgs), k)
         ELSE TextsWithKey(Tail(msgs), k)

\* The blocks read back from the markup: each opening piece starts a block,
\* each list item belongs to the block opened last.
RECURSIVE ParseBlocks(_, _)
ParseBlocks(t, acc) ==
    IF Len(t) = 0 THEN acc
    ELSE IF Head(t).kind = "<div><ul>"
         THEN ParseBlocks(Tail(t), Append(acc, [tag |-> Head(t).tag, items |-> <<>>]))
    ELSE IF Head(t).kind = "<li>"
         THEN ParseBlocks(Tail(t), [acc EXCEPT ![Len(acc)].items = Append(@, Head(t).text)])
    ELSE ParseBlocks(Tail(t), acc)

OutputBlocks == ParseBlocks(messages_template, <<>>)

\* Block i of the output is the block of the i-th key the loop went through.
BlocksFollowKeys ==
    /\ Len(OutputBlocks) = Len(sorted_keys)
    /\ \A i \in 1..Len(sorted_keys) : OutputBlocks[i].tag = sorted_keys[i][2]

\* a is a byte string smaller than b: a proper prefix of b, or smaller at the
\* first position where they differ.
TagBefore(a, b) ==
    \/ Len(a) < Len(b) /\ \A i \in 1..Len(a) : a[i] = b[i]
    \/ \E p \in 1..Min(Len(a), Len(b)) :
          /\ \A i \in 1..(p - 1) : a[i] = b[i]
          /\ a[p] < b[p]

\* Natural order of (severity, category-string): severity first.
KeyBefore(a, b) == a[1] < b[1] \/ (a[1] = b[1] /\ TagBefore(a[2], b[2]))

\* C1: after the classification loop every input message's text is in exactly
\* one group (the group lengths add up to the number of messages), and two
\* messages share a group iff their (level, tags) pairs are equal.
C1_EveryMessageInExactlyOneGroup ==
    Classified =>
        /\ DOMAIN classified_messages = InputKeys
        /\ SumOfLengths(classified_messages, DOMAIN classified_messages) = Len(messages)
        /\ \A k \in InputKeys :
              /\ Len(classified_messages[k]) = Cardinality({i \in MsgIdx : InputKey(i) = k})
              /\ \A j \in 1..Len(classified_messages[k]) :
                    \E i \in MsgIdx : InputKey(i) = k
                                      /\ messages[i].message = classified_messages[k][j]

\* Three messages, two of them with the same key, end up in two groups.
C1_Witness ==
    /\ Classified
    /\ Len(messages) = 3
    /\ InputKey(1) = InputKey(3) /\ InputKey(1) # InputKey(2)
    /\ Cardinality(DOMAIN classified_messages) = 2
    /\ Len(classified_messages[InputKey(1)]) = 2

\* C2 as stated: with warning and error messages in the input, the error
\* group's block comes before the warning group's block.
C2_ErrorBlockBeforeWarningBlock ==
    Rendered =>
        /\ BlocksFollowKeys
        /\ \A i, j \in 1..Len(sorted_keys) :
              (sorted_keys[i][1] = ERROR /\ sorted_keys[j][1] = WARNING) => i < j

\* C2 amended: with warning and error messages in the input, the warning
\* group's block comes before the error group's block, whatever the order in
\* which the messages were supplied.
C2_WarningBlockBeforeErrorBlock ==
    Rendered =>
        /\ BlocksFollowKeys
        /\ \A l \in {messages[i].level : i \in MsgIdx} :
              \E i \in 1..Len(sorted_keys) : sorted_keys[i][1] = l
        /\ \A i, j \in 1..Len(sorted_keys) :
              (sorted_keys[i][1] = WARNING /\ sorted_keys[j][1] = ERROR) => i < j

\* An error message supplied before two warnings with the same tags: the
\* output has the warning block first, the error block second.
C2_Witness ==
    /\ Rendered
    /\ Len(messages) = 3
    /\ messages[1].level = ERROR
    /\ messages[2].level = WARNING /\ messages[3].level = WARNING
    /\ messages[1].tags = messages[2].tags /\ messages[2].tags = messages[3].tags
    /\ Len(OutputBlocks) = 2
    /\ sorted_keys[1][1] = WARNING /\ sorted_keys[2][1] = ERROR
    /\ Len(OutputBlocks[1].items) = 2

\* C3: the blocks appear in the natural sorted order of their
\* (severity, category-string) keys, lower severity first and the
\* category-string deciding among equal severities, for every interleaving.
C3_BlocksInSortedKeyOrder ==
    Rendered =>
        /\ BlocksFollowKeys
        /\ {sorted_keys[i] : i \in 1..Len(sorted_keys)} = InputKeys
        /\ \A i, j \in 1..Len(sorted_keys) :
              i < j => KeyBefore(sorted_keys[i], sorted_keys[j])

\* Three keys supplied in descending order: one severity with two tags, one
\* of them a prefix of the other, and a lower severity with a larger tag.
C3_Witness ==
    /\ Rendered
    /\ Len(messages) = 3
    /\ messages[1].level = ERROR /\ messages[1].tags = <<97, 98>>
    /\ messages[2].level = ERROR /\ messages[2].tags = <<97>>
    /\ messages[3].level = WARNING /\ messages[3].tags = <<98>>
    /\ sorted_keys = <<InputKey(3), InputKey(2), InputKey(1)>>
    /\ Len(OutputBlocks) = 3

\* C4: the list items of each group's block are the texts of exactly the
\* input messages with that key, in their input order, duplicates included.
C4_ItemsInInputOrder ==
    Rendered =>
        /\ BlocksFollowKeys
        /\ {sorted_keys[i] : i \in 1..Len(sorted_keys)} = InputKeys
        /\ \A i \in 1..Len(sorted_keys) :
              OutputBlocks[i].items = TextsWithKey(messages, sorted_keys[i])

\* A group with two different texts, with another group's message between
\* them in the input.
C4_Witness ==
    /\ Rendered
    /\ Len(messages) = 3
    /\ InputKey(1) = InputKey(3) /\ InputKey(1) # InputKey(2)
    /\ messages[1].message = "m2" /\ messages[3].message = "m1"
    /\ \E i \in 1..Len(OutputBlocks) : OutputBlocks[i].items = <<"m2", "m1">>

\* C10: the output holds exactly one block per distinct key of the input
\* (the same tags under two severities give two blocks), and the empty input
\* gives the empty output.
C10_OneBlockPerDistinctKey ==
    Rendered =>
        /\ Len(OutputBlocks) = Cardinality(InputKeys)
        /\ Cardinality({i \in 1..Len(messages_template) :
                           messages_template[i].kind = "<div><ul>"}) = Cardinality(InputKeys)
        /\ Cardinality({i \in 1..Len(messages_template) :
                           messages_template[i].kind = "</ul></div>"}) = Cardinality(InputKeys)
        /\ \A k \in InputKeys :
              Cardinality({i \in 1..Len(OutputBlocks) :
                              /\ OutputBlocks[i].tag = k[2]
                              /\ OutputBlocks[i].items = TextsWithKey(messages, k)}) >= 1
        /\ messages = <<>> => messages_template = <<>>

\* The same tags under two severities: two blocks with that tag.
C10_Witness ==
    /\ Rendered
    /\ Len(messages) = 2
    /\ messages[1].tags = messages[2].tags
    /\ messages[1].level # messages[2].level
    /\ Len(OutputBlocks) = 2
    /\ OutputBlocks[1].tag = OutputBlocks[2].tag

====
